---- MODULE Spec2Model ----
(***************************************************************************)
(* A model of the day planner: the enrichment tools (src/tools.py:          *)
(* get_weather_outlook, get_city_news, get_local_spots), the planning      *)
(* workflow (src/agents.py: plan_day_workflow) and the page that launches  *)
(* it (src/app.py: run_plan and the two forms).                            *)
(*                                                                         *)
(* Conventions.                                                            *)
(*  - A Python value that may be None is an option: <<>> is None and <<v>> *)
(*    is the value v.  dict.get(k) of an absent key is <<>>.               *)
(*  - A Python str that the code inspects (lower(), "in", split, strip) is *)
(*    a sequence of one-character strings.  A str that the code only       *)
(*    compares, tests for emptiness or embeds in its output is a TLA+      *)
(*    string.                                                              *)
(*  - Coordinates are integers in units of the arc that is 0.5 km long on  *)
(*    the Earth's surface, so distances and scores are integers in units   *)
(*    of 0.5 km.                                                           *)
(*  - A calendar date is its ordinal day within the year 2025.             *)
(***************************************************************************)
EXTENDS Integers, Sequences, FiniteSets, TLC

VARIABLES
    tool,         \* which tool function this invocation runs
    pc,           \* position inside the tool function
    location,     \* argument: location
    interest,     \* argument: interest / interests (option of a char sequence)
    target_date,  \* argument: target_date (option of an ISO date string)
    today,        \* the clock: the current UTC day
    upstream,     \* what the remote services answer to this invocation
    requests,     \* the HTTP requests issued so far, in order
    responses,    \* how each of those requests ended: "ok" or "error"
    coordinates,  \* result of _lookup_coordinates (option)
    data,         \* get_local_spots: data["elements"]
    idx,          \* loop position in data / items (1-based, next to examine)
    spots,        \* get_local_spots: spots
    seen,         \* get_local_spots: seen
    items,        \* get_city_news: items
    filtered,     \* get_city_news: filtered
    forecast,     \* get_weather_outlook: forecast
    result,       \* the returned value, or the raised exception
    session,      \* app.py: st.session_state
    shown,        \* app.py: the result that the results block last rendered (option)
    notice,       \* app.py: what st.error / st.warning last showed (option)
    script_pc,    \* app.py: position of the page script in its current run
    rp_pc,        \* run_plan: position
    rp_args,      \* run_plan: its arguments (option)
    log,          \* run_plan: log, the stages that push was called with
    wf_pc,        \* plan_day_workflow: position
    wf_args,      \* plan_day_workflow: its arguments (option)
    profile,      \* plan_day_workflow: profile (option)
    weather,      \* plan_day_workflow: weather (option)
    local_insights, \* plan_day_workflow: local_insights (option)
    events,       \* the _notify calls and task kickoffs of the current call, in order
    wf_result     \* plan_day_workflow: the returned dict, or the raised exception

\* the variables of the enrichment tools
toolVars == <<tool, pc, location, interest, target_date, today, upstream, requests,
              responses, coordinates, data, idx, spots, seen, items, filtered,
              forecast, result>>

\* the variables of the workflow and of the page
flowVars == <<session, shown, notice, script_pc, rp_pc, rp_args, log, wf_pc, wf_args,
              profile, weather, local_insights, events, wf_result>>

vars == <<toolVars, flowVars>>

(***************************************************************************)
(* Bounds of the model.                                                    *)
(***************************************************************************)
MaxCoordElems == 3   \* longest POI response of the coordinate/dedup family
MaxRankElems == 2    \* longest POI response of the scoring family
LongLen == 8         \* longest POI response of the truncation family
MaxNewsItems == 3    \* longest feed of the filtering family
NewsLongLen == 7     \* longest feed of the cap family
MaxHourly == 3       \* longest hourly humidity / temperature series

(***************************************************************************)
(* Options and Python truthiness.                                          *)
(***************************************************************************)
None == <<>>
Some(v) == <<v>>
IsNone(o) == o = <<>>
Val(o) == o[1]

\* bool(x) of an optional number: None and 0 are falsy
TruthyNum(o) == o # <<>> /\ Val(o) # 0
\* bool(x) of an optional TLA+-string str: None and "" are falsy
TruthyStr(o) == o # <<>> /\ Val(o) # ""
\* bool(x) of an optional char-sequence str: None and "" are falsy
TruthySeq(o) == o # <<>> /\ Val(o) # <<>>

\* Python "a or b" on optional numbers
OrNum(a, b) == IF TruthyNum(a) THEN a ELSE b
\* Python "a or b" on optional char-sequence strings
OrSeq(a, b) == IF TruthySeq(a) THEN a ELSE b

Abs(x) == IF x < 0 THEN -x ELSE x
Max2(a, b) == IF a >= b THEN a ELSE b
Min2(a, b) == IF a <= b THEN a ELSE b

(***************************************************************************)
(* Strings as character sequences: str.lower, "sub in s", split, strip.    *)
(***************************************************************************)
UpperToLower ==
    [A |-> "a", B |-> "b", C |-> "c", D |-> "d", E |-> "e", F |-> "f", G |-> "g",
     H |-> "h", I |-> "i", J |-> "j", K |-> "k", L |-> "l", M |-> "m", N |-> "n",
     O |-> "o", P |-> "p", Q |-> "q", R |-> "r", S |-> "s", T |-> "t", U |-> "u",
     V |-> "v", W |-> "w", X |-> "x", Y |-> "y", Z |-> "z"]

LowerChar(c) == IF c \in DOMAIN UpperToLower THEN UpperToLower[c] ELSE c

\* s.lower()
Lower(s) == [i \in 1..Len(s) |-> LowerChar(s[i])]

\* "sub in s": sub is a contiguous slice of s (the empty string is in every s)
Contains(sub, s) ==
    \E i \in 0..(Len(s) - Len(sub)) : SubSeq(s, i + 1, i + Len(sub)) = sub

\* s.split(sep) for a one-character separator: the pieces between separators
RECURSIVE Split(_, _)
Split(s, sep) ==
    IF \A i \in 1..Len(s) : s[i] # sep
    THEN <<s>>
    ELSE LET k == CHOOSE i \in 1..Len(s) :
                      s[i] = sep /\ \A j \in 1..(i - 1) : s[j] # sep
         IN  <<SubSeq(s, 1, k - 1)>> \o Split(SubSeq(s, k + 1, Len(s)), sep)

Whitespace == {" "}

\* s.strip(): without its leading and trailing whitespace
Strip(s) ==
    LET keep == {i \in 1..Len(s) : s[i] \notin Whitespace}
    IN  IF keep = {} THEN <<>>
        ELSE SubSeq(s, CHOOSE a \in keep : \A b \in keep : a <= b,
                       CHOOSE a \in keep : \A b \in keep : a >= b)

(***************************************************************************)
(* String literals of the source and of the inputs.                        *)
(***************************************************************************)
STR_stadium == <<"s", "t", "a", "d", "i", "u", "m">>
STR_pitch == <<"p", "i", "t", "c", "h">>
STR_sports_centre == <<"s", "p", "o", "r", "t", "s", "_", "c", "e", "n", "t", "r", "e">>
STR_cinema == <<"c", "i", "n", "e", "m", "a">>
STR_theatre == <<"t", "h", "e", "a", "t", "r", "e">>
STR_mall == <<"m", "a", "l", "l">>
STR_park == <<"p", "a", "r", "k">>
STR_attraction == <<"a", "t", "t", "r", "a", "c", "t", "i", "o", "n">>
STR_restaurant == <<"r", "e", "s", "t", "a", "u", "r", "a", "n", "t">>
STR_Stadium == <<"S", "t", "a", "d", "i", "u", "m">>
STR_Sports_Pitch == <<"S", "p", "o", "r", "t", "s", " ", "P", "i", "t", "c", "h">>
STR_Sports_Centre == <<"S", "p", "o", "r", "t", "s", " ", "C", "e", "n", "t", "r", "e">>
STR_Cinema == <<"C", "i", "n", "e", "m", "a">>
STR_Theatre == <<"T", "h", "e", "a", "t", "r", "e">>
STR_Mall == <<"M", "a", "l", "l">>
STR_Park == <<"P", "a", "r", "k">>
STR_Attraction == <<"A", "t", "t", "r", "a", "c", "t", "i", "o", "n">>
STR_Restaurant == <<"R", "e", "s", "t", "a", "u", "r", "a", "n", "t">>
STR_Point_of_interest == <<"P", "o", "i", "n", "t", " ", "o", "f", " ", "i", "n", "t", "e", "r", "e", "s", "t">>
STR_cricket == <<"c", "r", "i", "c", "k", "e", "t">>
STR_movie == <<"m", "o", "v", "i", "e">>
STR_game == <<"g", "a", "m", "e">>
STR_Untitled == <<"U", "n", "t", "i", "t", "l", "e", "d">>
STR_NA == <<"N", "/", "A">>
STR_gaming == <<"g", "a", "m", "i", "n", "g">>

(***************************************************************************)
(* POI_TAGS and _tag_label.                                                *)
(***************************************************************************)
POI_TAGS ==
    << [key |-> "leisure", value |-> STR_stadium, label |-> STR_Stadium],
       [key |-> "leisure", value |-> STR_pitch, label |-> STR_Sports_Pitch],
       [key |-> "leisure", value |-> STR_sports_centre, label |-> STR_Sports_Centre],
       [key |-> "amenity", value |-> STR_cinema, label |-> STR_Cinema],
       [key |-> "amenity", value |-> STR_theatre, label |-> STR_Theatre],
       [key |-> "shop", value |-> STR_mall, label |-> STR_Mall],
       [key |-> "leisure", value |-> STR_park, label |-> STR_Park],
       [key |-> "tourism", value |-> STR_attraction, label |-> STR_Attraction],
       [key |-> "amenity", value |-> STR_restaurant, label |-> STR_Restaurant] >>

\* the smallest member of a non-empty set of integers
MinOf(S) == CHOOSE m \in S : \A n \in S : m <= n

\* _tag_label(tags): the label of the first matching POI_TAGS row, else the
\* raw amenity / leisure / tourism value, else "Point of interest"
TagLabel(tags) ==
    LET hits == {i \in 1..Len(POI_TAGS) : tags[POI_TAGS[i].key] = Some(POI_TAGS[i].value)}
    IN  IF hits # {}
        THEN POI_TAGS[MinOf(hits)].label
        ELSE Val(OrSeq(tags.amenity,
                 OrSeq(tags.leisure,
                 OrSeq(tags.tourism, Some(STR_Point_of_interest)))))

(***************************************************************************)
(* _km_distance.  The haversine distance of two points of one meridian is  *)
(* r * |lat2 - lat1|, and of two points of the equator r * |lon2 - lon1|   *)
(* (angles in radians); in the model's unit r * 1 = 1 (0.5 km).  The       *)
(* responses of the model keep every point on the meridian of the origin.  *)
(***************************************************************************)
KmDistance(lat1, lon1, lat2, lon2) ==
    CASE lon1 = lon2 -> Abs(lat2 - lat1)
      [] lon1 # lon2 /\ lat1 = 0 /\ lat2 = 0 -> Abs(lon2 - lon1)

(***************************************************************************)
(* get_local_spots: the body of the loop over data["elements"].            *)
(***************************************************************************)
CricketBonus == 4    \* score -= 2    (km)
MovieBonus == 3      \* score -= 1.5  (km)
MallBonus == 2       \* score -= 1    (km)
TopN == 7            \* spots[:7]

\* (interest or "").lower()
InterestLower(i) == Lower(IF TruthySeq(i) THEN Val(i) ELSE <<>>)

\* elem_lat = element.get("lat") or element.get("center", {}).get("lat")
ElemLat(element) ==
    OrNum(element.lat, IF IsNone(element.center) THEN None ELSE Val(element.center).lat)

\* elem_lon = element.get("lon") or element.get("center", {}).get("lon")
ElemLon(element) ==
    OrNum(element.lon, IF IsNone(element.center) THEN None ELSE Val(element.center).lon)

\* a variant without the seen test
SkippedOnName_NoDedup(element, seenNames) ==
    ~TruthyStr(element.tags.name)

\* "if not name or name in seen: continue"
SkippedOnName(element, seenNames) ==
    \/ ~TruthyStr(element.tags.name)
    \/ Val(element.tags.name) \in seenNames

\* "if elem_lat is None or elem_lon is None: continue"
SkippedOnCoords(element) ==
    IsNone(ElemLat(element)) \/ IsNone(ElemLon(element))

\* a variant whose bonus tests are chained with elif: at most one applies
ScoreOf_FirstBonusOnly(distance, label, interest_lower) ==
    IF interest_lower = <<>> THEN distance
    ELSE IF Contains(STR_cricket, interest_lower) /\ Contains(STR_stadium, Lower(label))
    THEN distance - CricketBonus
    ELSE IF Contains(STR_movie, interest_lower) /\ Contains(STR_cinema, Lower(label))
    THEN distance - MovieBonus
    ELSE IF (\E word \in {STR_game, STR_gaming, STR_mall} : Contains(word, interest_lower))
            /\ label = STR_Mall
    THEN distance - MallBonus
    ELSE distance

\* the interest bonuses subtracted from the distance
ScoreOf(distance, label, interest_lower) ==
    LET s0 == distance
        s1 == IF interest_lower # <<>> /\ Contains(STR_cricket, interest_lower)
                 /\ Contains(STR_stadium, Lower(label))
              THEN s0 - CricketBonus ELSE s0
        s2 == IF interest_lower # <<>> /\ Contains(STR_movie, interest_lower)
                 /\ Contains(STR_cinema, Lower(label))
              THEN s1 - MovieBonus ELSE s1
        s3 == IF interest_lower # <<>>
                 /\ (\E word \in {STR_game, STR_gaming, STR_mall} :
                        Contains(word, interest_lower))
                 /\ label = STR_Mall
              THEN s2 - MallBonus ELSE s2
    IN  s3

\* the dict appended to spots for an element that is not skipped
SpotOf(element, origin, interest_lower) ==
    LET distance == KmDistance(origin.lat, origin.lon,
                               Val(ElemLat(element)), Val(ElemLon(element)))
        label == TagLabel(element.tags)
    IN  [name |-> Val(element.tags.name),
         label |-> label,
         distance |-> distance,
         score |-> Max2(ScoreOf(distance, label, interest_lower), 0)]

\* a variant that adds the name to seen before the coordinates are looked at
Examine_SeenEarly(element, sp, sn, origin, interest_lower) ==
    IF SkippedOnName(element, sn)
    THEN [spots |-> sp, seen |-> sn]
    ELSE IF SkippedOnCoords(element)
    THEN [spots |-> sp, seen |-> sn \cup {Val(element.tags.name)}]
    ELSE [spots |-> Append(sp, SpotOf(element, origin, interest_lower)),
          seen |-> sn \cup {Val(element.tags.name)}]

\* the loop body: spots and seen after one element has been examined
Examine(element, sp, sn, origin, interest_lower) ==
    IF SkippedOnName(element, sn) \/ SkippedOnCoords(element)
    THEN [spots |-> sp, seen |-> sn]
    ELSE [spots |-> Append(sp, SpotOf(element, origin, interest_lower)),
          seen |-> sn \cup {Val(element.tags.name)}]

\* a variant that sorts ascending but puts an element before its equals
RECURSIVE SortByScore_Unstable(_)
SortByScore_Unstable(s) ==
    IF s = <<>> THEN <<>>
    ELSE LET front == SortByScore_Unstable(SubSeq(s, 1, Len(s) - 1))
             x == s[Len(s)]
             k == Cardinality({i \in 1..Len(front) : front[i].score < x.score})
         IN  SubSeq(front, 1, k) \o <<x>> \o SubSeq(front, k + 1, Len(front))

\* spots.sort(key=lambda s: s["score"]): ascending, stable
RECURSIVE SortByScore(_)
SortByScore(s) ==
    IF s = <<>> THEN <<>>
    ELSE LET front == SortByScore(SubSeq(s, 1, Len(s) - 1))
             x == s[Len(s)]
             \* x goes after every element whose score is <= its own
             k == Cardinality({i \in 1..Len(front) : front[i].score <= x.score})
         IN  SubSeq(front, 1, k) \o <<x>> \o SubSeq(front, k + 1, Len(front))

\* spots[:7]
TopSpots(s) == SubSeq(s, 1, Min2(Len(s), TopN))

\* a variant that truncates before it sorts
RenderedSpots_TruncateFirst(s) == SortByScore(TopSpots(s))

\* the venues that are rendered: spots.sort(...) and then spots[:7]
RenderedSpots(s) == TopSpots(SortByScore(s))

\* "{distance:.1f}": the distance in tenths of a kilometre
OneDecimal(distance) == distance * 5

\* one "- name (label) · d km away" line
LineOf(spot) ==
    [name |-> spot.name, label |-> spot.label, km_tenths |-> OneDecimal(spot.distance)]

(***************************************************************************)
(* The inputs: arguments and upstream answers.                             *)
(***************************************************************************)
\* every sequence over S of length at most n
SeqsUpTo(S, n) == UNION {[1..k -> S] : k \in 0..n}

Locations == {"", "Hyderabad"}

\* geocoder matches: the origin is 0.5 km north of the equator, on meridian 5
GeoFull == [name |-> Some("Hyderabad"), admin1 |-> Some("Telangana"),
            country |-> Some("India"), latitude |-> 1, longitude |-> 5]
GeoBare == [name |-> Some("Hyderabad"), admin1 |-> None,
            country |-> Some(""), latitude |-> 1, longitude |-> 5]

NoTags == [name |-> None, leisure |-> None, amenity |-> None, shop |-> None,
           tourism |-> None]

TagsPark == [NoTags EXCEPT !.leisure = Some(STR_park)]
TagsStadium == [NoTags EXCEPT !.leisure = Some(STR_stadium)]
TagsCinema == [NoTags EXCEPT !.amenity = Some(STR_cinema)]
TagsShopMall == [NoTags EXCEPT !.shop = Some(STR_mall)]
\* no POI_TAGS row matches: the label is the raw value
TagsLeisureMall == [NoTags EXCEPT !.leisure = Some(STR_mall)]
TagsStadiumCinema == [NoTags EXCEPT !.amenity = Some(<<"s", "t", "a", "d", "i", "u", "m", "_", "c", "i", "n", "e", "m", "a">>)]

\* an element of the POI response
Elem(name, lat, lon, center, tags) ==
    [tags |-> [tags EXCEPT !.name = name], lat |-> lat, lon |-> lon, center |-> center]

Center(lat, lon) == Some([lat |-> lat, lon |-> lon])

\* the coordinate shapes of the coordinate/dedup family
CoordShapes ==
    { [lat |-> Some(7), lon |-> Some(5), center |-> None],
      [lat |-> Some(0), lon |-> Some(5), center |-> None],
      [lat |-> Some(0), lon |-> Some(5), center |-> Center(Some(3), Some(5))],
      [lat |-> None, lon |-> None, center |-> Center(Some(3), Some(5))],
      [lat |-> None, lon |-> None, center |-> None] }

\* two names in every shape, and the two kinds of missing name
CoordElems ==
    {Elem(n, c.lat, c.lon, c.center, TagsPark) : n \in {Some("A"), Some("B")}, c \in CoordShapes}
    \cup {Elem(n, Some(7), Some(5), None, TagsPark) : n \in {None, Some("")}}

\* the scoring family: distances 0.5 km, 2.5 km and 3.0 km
RankTags == {TagsPark, TagsStadium, TagsCinema, TagsShopMall, TagsLeisureMall,
             TagsStadiumCinema}
RankInterests ==
    {None, Some(<<>>), Some(<<"C", "r", "i", "c", "k", "e", "t">>), Some(<<"m", "o", "v", "i", "e", "s", ",", " ", "c", "r", "i", "c", "k", "e", "t">>), Some(<<"g", "a", "m", "i", "n", "g">>),
     Some(<<"b", "o", "a", "r", "d", " ", "g", "a", "m", "e", "s">>), Some(<<"h", "i", "k", "i", "n", "g">>)}

NameAt == <<"V1", "V2", "V3", "V4", "V5", "V6", "V7", "V8", "V9", "V10">>

RankChoices ==
    ({6, 7} \X RankTags) \cup ({2} \X {TagsPark, TagsStadium, TagsStadiumCinema})
RankResponses ==
    UNION { { [i \in 1..k |-> Elem(Some(NameAt[i]), Some(c[i][1]), Some(5), None, c[i][2])]
              : c \in [1..k -> RankChoices] } : k \in 0..MaxRankElems }

\* the truncation family: TopN or more distinct venues at 2.5 km or 3.0 km
LongLats == {6, 7}
LongResponses ==
    UNION { { [i \in 1..k |-> Elem(Some(NameAt[i]), Some(c[i]), Some(5), None, TagsPark)]
              : c \in [1..k -> LongLats] } : k \in (LongLen - 1)..LongLen }

(***************************************************************************)
(* Initial states: one invocation of one tool with its arguments.          *)
(***************************************************************************)
NoResult == [kind |-> "none"]

\* a fresh session: the page waits for input, nothing has been called
FlowIdle ==
    /\ session = [result |-> None, last_status_log |-> None, last_payload |-> None,
                  latest_inputs |-> None]
    /\ shown = None
    /\ notice = None
    /\ script_pc = "idle"
    /\ rp_pc = "none"
    /\ rp_args = None
    /\ log = <<>>
    /\ wf_pc = "idle"
    /\ wf_args = None
    /\ profile = None
    /\ weather = None
    /\ local_insights = None
    /\ events = <<>>
    /\ wf_result = NoResult

InitLocals ==
    /\ FlowIdle
    /\ pc = "start"
    /\ requests = <<>>
    /\ responses = <<>>
    /\ coordinates = None
    /\ data = <<>>
    /\ idx = 1
    /\ spots = <<>>
    /\ seen = {}
    /\ items = <<>>
    /\ filtered = <<>>
    /\ forecast = <<>>
    /\ result = NoResult

InitSpots ==
    /\ tool = "spots"
    /\ target_date = None
    /\ today = 152
    /\ InitLocals
    /\ \/ \* the lookup paths
          /\ location \in Locations
          /\ interest \in {None, Some(STR_cricket)}
          /\ upstream \in [geo : {<<>>, <<GeoFull>>, <<GeoBare>>},
                           elements : SeqsUpTo({Elem(Some("A"), Some(7), Some(5), None, TagsStadium)}, 1)]
       \/ \* coordinates and deduplication
          /\ location = "Hyderabad"
          /\ interest = None
          /\ upstream \in [geo : {<<GeoFull>>}, elements : SeqsUpTo(CoordElems, MaxCoordElems)]
       \/ \* scoring
          /\ location = "Hyderabad"
          /\ interest \in RankInterests
          /\ upstream \in [geo : {<<GeoFull>>}, elements : RankResponses]
       \/ \* truncation
          /\ location = "Hyderabad"
          /\ interest = None
          /\ upstream \in [geo : {<<GeoFull>>}, elements : LongResponses]

(***************************************************************************)
(* _lookup_coordinates, as called first by get_weather_outlook and         *)
(* get_local_spots.                                                        *)
(***************************************************************************)
\* ", ".join(filter(None, [name, admin1, country])): the parts that are joined
PrettyLabel(match) ==
    SelectSeq(<<match.name, match.admin1, match.country>>, TruthyStr)

\* the returned tuple, or None when the geocoder has no result
CoordinatesOf(results) ==
    IF results = <<>> THEN None
    ELSE Some([lat |-> results[1].latitude, lon |-> results[1].longitude,
               label |-> PrettyLabel(results[1])])

\* a variant that catches the exception and returns a message
Raise_Caught(exc) ==
    /\ pc' = "done"
    /\ result' = [kind |-> "request_failed", exc |-> exc]

\* the exception leaves the tool function
Raise(exc) ==
    /\ pc' = "raised"
    /\ result' = [kind |-> "raised", exc |-> exc]

\* a variant that tests "location is None" only: "" is let through
NoLocation_NoneOnly(loc) == FALSE

\* "if not location"
NoLocation(loc) == loc = ""

LookupCoordinates ==
    /\ pc = "start"
    /\ tool \in {"weather", "spots"}
    /\ IF NoLocation(location)
       THEN \* "if not location: return None", before any request
            /\ coordinates' = None
            /\ pc' = "looked_up"
            /\ UNCHANGED <<requests, responses, result>>
       ELSE /\ requests' = Append(requests, "geocode")
            /\ \E ok \in BOOLEAN :
                 IF ok
                 THEN /\ responses' = Append(responses, "ok")
                      /\ coordinates' = CoordinatesOf(upstream.geo)
                      /\ pc' = "looked_up"
                      /\ UNCHANGED result
                 ELSE \* requests.get times out or raise_for_status() raises
                      /\ responses' = Append(responses, "error")
                      /\ Raise("RequestException")
                      /\ UNCHANGED coordinates
    /\ UNCHANGED <<flowVars, tool, location, interest, target_date, today, upstream,
                   data, idx, spots, seen, items, filtered, forecast>>

(***************************************************************************)
(* get_local_spots.                                                        *)
(***************************************************************************)
SpotsUnlocated ==
    /\ tool = "spots"
    /\ pc = "looked_up"
    /\ coordinates = None
    /\ result' = [kind |-> "unable_to_locate", location |-> location]
    /\ pc' = "done"
    /\ UNCHANGED <<flowVars, responses, tool, location, interest, target_date, today,
                   upstream, requests,
                   coordinates, data, idx, spots, seen, items, filtered, forecast>>

\* requests.post(OVERPASS_ENDPOINT, ...); data = response.json()
SpotsFetch ==
    /\ tool = "spots"
    /\ pc = "looked_up"
    /\ coordinates # None
    /\ requests' = Append(requests, "overpass")
    /\ \E ok \in BOOLEAN :
         IF ok
         THEN /\ responses' = Append(responses, "ok")
              /\ data' = upstream.elements
              /\ spots' = <<>>
              /\ seen' = {}
              /\ idx' = 1
              /\ pc' = "loop"
              /\ UNCHANGED result
         ELSE /\ responses' = Append(responses, "error")
              /\ Raise("RequestException")
              /\ UNCHANGED <<data, spots, seen, idx>>
    /\ UNCHANGED <<flowVars, tool, location, interest, target_date, today, upstream,
                   coordinates, items, filtered, forecast>>

\* one iteration of "for element in data.get("elements", [])"
SpotsLoopStep ==
    /\ tool = "spots"
    /\ pc = "loop"
    /\ idx <= Len(data)
    /\ LET after == Examine(data[idx], spots, seen, Val(coordinates),
                             InterestLower(interest))
       IN  /\ spots' = after.spots
           /\ seen' = after.seen
    /\ idx' = idx + 1
    /\ UNCHANGED <<flowVars, responses, tool, pc, location, interest, target_date, today,
                   upstream, requests,
                   coordinates, data, items, filtered, forecast, result>>

\* after the loop: the empty answer, or sort, truncate and render
SpotsRender ==
    /\ tool = "spots"
    /\ pc = "loop"
    /\ idx > Len(data)
    /\ IF spots = <<>>
       THEN /\ result' = [kind |-> "no_venues", label |-> Val(coordinates).label]
            /\ UNCHANGED spots
       ELSE /\ spots' = SortByScore(spots)
            /\ result' = [kind |-> "venues",
                          label |-> Val(coordinates).label,
                          lines |-> [i \in 1..Len(RenderedSpots(spots)) |->
                                        LineOf(RenderedSpots(spots)[i])],
                          bias |-> IF InterestLower(interest) # <<>>
                                   THEN Some(InterestLower(interest)) ELSE None]
    /\ pc' = "done"
    /\ UNCHANGED <<flowVars, responses, tool, location, interest, target_date, today,
                   upstream, requests,
                   coordinates, data, idx, seen, items, filtered, forecast>>

(***************************************************************************)
(* Dates.  An ISO date string "2025-mm-dd" is the record [m, d]; an        *)
(* RFC 2822 date string "dd Mon 2025 hh:00:00 +zz00" is the record         *)
(* [fmt, d, m, hh, off]; any other text has fmt # "rfc2822".               *)
(***************************************************************************)
DaysIn == <<31, 28, 31, 30, 31, 30, 31, 31, 30, 31, 30, 31>>

RECURSIVE DaysBefore(_)
DaysBefore(m) == IF m = 1 THEN 0 ELSE DaysBefore(m - 1) + DaysIn[m - 1]

\* date(2025, m, d) as the ordinal day of the year
Ordinal(m, d) == DaysBefore(m) + d

IsoStr(m, d) == [m |-> m, d |-> d]

\* _parse_iso_date: None for None, and for a string strptime rejects
ParseIsoDate(value) ==
    IF IsNone(value) THEN None
    ELSE LET v == Val(value)
         IN  IF v.m \in 1..12 /\ v.d \in 1..DaysIn[v.m]
             THEN Some(Ordinal(v.m, v.d))
             ELSE None

\* date.isoformat()
IsoFormat(day) ==
    LET m == CHOOSE k \in 1..12 : DaysBefore(k) < day /\ day <= DaysBefore(k) + DaysIn[k]
    IN  IsoStr(m, day - DaysBefore(m))

\* target_day = _parse_iso_date(target_date) or _today_utc()
TargetDay(value, now_day) ==
    IF IsNone(ParseIsoDate(value)) THEN now_day ELSE Val(ParseIsoDate(value))

Rfc(d, m, hh, off) == [fmt |-> "rfc2822", d |-> d, m |-> m, hh |-> hh, off |-> off]
Garbage == [fmt |-> "text"]

\* parsedate_to_datetime(p).astimezone(timezone.utc), in hours since the start
\* of the year; None when parsedate_to_datetime raises
ParseUtcHours(p) ==
    IF p.fmt = "rfc2822" /\ p.m \in 1..12 /\ p.d \in 1..DaysIn[p.m] /\ p.hh \in 0..23
    THEN Some((Ordinal(p.m, p.d) - 1) * 24 + p.hh - p.off)
    ELSE None

\* datetime.date() of a UTC time in hours since the start of the year
UtcDay(hours) == (hours \div 24) + 1

\* datetime.now(timezone.utc): noon of the current day
NowHours(now_day) == (now_day - 1) * 24 + 12

\* _format_news_age(pub_date)
FormatNewsAge(pub_date, now_day) ==
    IF IsNone(pub_date) \/ IsNone(ParseUtcHours(Val(pub_date)))
    THEN [bucket |-> "recent", n |-> 0]
    ELSE LET hours == NowHours(now_day) - Val(ParseUtcHours(Val(pub_date)))
         IN  IF hours < 1 THEN [bucket |-> "just now", n |-> 0]
             ELSE IF hours < 24 THEN [bucket |-> "h ago", n |-> hours]
             ELSE [bucket |-> "d ago", n |-> hours \div 24]

(***************************************************************************)
(* get_city_news.                                                          *)
(***************************************************************************)
NewsCap == 5         \* "if len(filtered) == 5: break"
FallbackCount == 3   \* items[:3]

\* keywords: the stripped, lower-cased, non-empty comma-separated tokens
Keywords(interests) ==
    LET tokens == Split(IF TruthySeq(interests) THEN Val(interests) ELSE <<>>, ",")
        kept == SelectSeq(tokens, LAMBDA t : Strip(t) # <<>>)
    IN  [i \in 1..Len(kept) |-> Lower(Strip(kept[i]))]

\* item.findtext("title", default="Untitled")
TitleOf(item) == IF IsNone(item.title) THEN STR_Untitled ELSE Val(item.title)
\* item.findtext("description", default="")
DescriptionOf(item) == IF IsNone(item.description) THEN <<>> ELSE Val(item.description)

\* a variant that compares the date as written, without astimezone(utc)
DroppedOnDate_LocalDay(item, target_day) ==
    /\ ~IsNone(item.pubDate)
    /\ ~IsNone(ParseUtcHours(Val(item.pubDate)))
    /\ Ordinal(Val(item.pubDate).m, Val(item.pubDate).d) # target_day

\* the date filter: "continue" when pubDate is non-empty, parses, and its UTC
\* day differs from target_day
DroppedOnDate(item, target_day) ==
    /\ ~IsNone(item.pubDate)
    /\ ~IsNone(ParseUtcHours(Val(item.pubDate)))
    /\ UtcDay(Val(ParseUtcHours(Val(item.pubDate)))) # target_day

\* the keyword filter: "continue" when keywords are given and none of them is
\* in the lower-cased title or description
DroppedOnKeywords(item, keywords) ==
    /\ keywords # <<>>
    /\ ~\E k \in 1..Len(keywords) :
          \/ Contains(keywords[k], Lower(TitleOf(item)))
          \/ Contains(keywords[k], Lower(DescriptionOf(item)))

\* the headline appended to filtered
HeadlineOf(item, now_day) ==
    [title |-> TitleOf(item),
     source |-> IF IsNone(item.source) THEN "Local outlet" ELSE Val(item.source),
     age |-> FormatNewsAge(item.pubDate, now_day),
     link |-> item.link]

\* a variant that breaks one headline late
CapReached_Late(f) == Len(f) > NewsCap

\* the loop's break test, after an append
CapReached(f) == Len(f) = NewsCap

\* "for item in items": the items whose headline the loop appends, given the
\* items kept so far and the position of the next item to examine
RECURSIVE FilterLoop(_, _, _, _, _)
FilterLoop(its, i, kept, target_day, keywords) ==
    IF i > Len(its) THEN kept
    ELSE IF DroppedOnDate(its[i], target_day) \/ DroppedOnKeywords(its[i], keywords)
    THEN FilterLoop(its, i + 1, kept, target_day, keywords)
    ELSE IF CapReached(Append(kept, its[i])) THEN Append(kept, its[i])
    ELSE FilterLoop(its, i + 1, Append(kept, its[i]), target_day, keywords)

\* a variant that iterates over items[1:]
FilterItems_SkipFirst(its, target_day, keywords) ==
    FilterLoop(its, 2, <<>>, target_day, keywords)

\* the date / keyword / cap filter as a function of the item list
FilterItems(its, target_day, keywords) ==
    FilterLoop(its, 1, <<>>, target_day, keywords)

\* a variant that samples every item
FallbackTitles_All(its) == [i \in 1..Len(its) |-> TitleOf(its[i])]

\* [title for item in items[:3]]
FallbackTitles(its) ==
    [i \in 1..Min2(Len(its), FallbackCount) |-> TitleOf(its[i])]

\* the news inputs
LinkAt == <<"L1", "L2", "L3", "L4", "L5", "L6", "L7", "L8", "L9">>

NewsDates == {None, Some(Garbage), Some(Rfc(1, 6, 10, 0)), Some(Rfc(1, 6, 23, -5))}
NewsTexts ==
    { [title |-> Some(<<"C", "r", "i", "c", "k", "e", "t", " ", "C", "u", "p">>), description |-> None],
      [title |-> Some(<<"J", "a", "z", "z">>), description |-> Some(<<"w", "i", "t", "h", " ", "C", "R", "I", "C", "K", "E", "T", " ", "s", "t", "a", "r", "s">>)],
      [title |-> None, description |-> Some(<<"j", "a", "z", "z">>)] }
NewsChoices ==
    (NewsDates \X {CHOOSE t \in NewsTexts : t.description = None})
    \cup ({None, Some(Rfc(1, 6, 10, 0))} \X NewsTexts)

Item(text, pubDate, link) ==
    [title |-> text.title, description |-> text.description, pubDate |-> pubDate,
     link |-> link, source |-> IF IsNone(text.description) THEN Some("Daily") ELSE None]

NewsFeeds ==
    UNION { { [i \in 1..k |-> Item(c[i][2], c[i][1], LinkAt[i])]
              : c \in [1..k -> NewsChoices] } : k \in 0..MaxNewsItems }

\* the cap family: NewsCap or more items, each on the target day or the day after
LongDates == {Some(Rfc(1, 6, 10, 0)), Some(Rfc(2, 6, 10, 0))}
LongFeeds ==
    UNION { { [i \in 1..k |-> Item([title |-> Some(<<"C", "r", "i", "c", "k", "e", "t", " ", "C", "u", "p">>), description |-> None],
                                   c[i], LinkAt[i])]
              : c \in [1..k -> LongDates] } : k \in (NewsLongLen - 1)..NewsLongLen }

NewsInterests == {None, Some(<<" ", "C", "r", "i", "c", "k", "e", "t", ",", " ", ",", "c", "u", "p">>)}

InitNews ==
    /\ tool = "news"
    /\ InitLocals
    /\ \/ \* the early returns
          /\ location \in Locations
          /\ target_date \in {None, Some(IsoStr(6, 1)), Some(IsoStr(6, 31))}
          /\ today = 153
          /\ interest = None
          /\ upstream \in [wellformed : BOOLEAN,
                           items : {<<>>, <<Item(CHOOSE t \in NewsTexts : t.title = None,
                                                 Some(Rfc(1, 6, 23, -5)), LinkAt[1])>>}]
       \/ \* filtering
          /\ location = "Hyderabad"
          /\ target_date \in {None, Some(IsoStr(6, 1))}
          /\ today = 153
          /\ interest \in NewsInterests
          /\ upstream \in [wellformed : {TRUE}, items : NewsFeeds]
       \/ \* the cap
          /\ location = "Hyderabad"
          /\ target_date = Some(IsoStr(6, 1))
          /\ today = 153
          /\ interest \in NewsInterests
          /\ upstream \in [wellformed : {TRUE}, items : LongFeeds]

\* from the call to the start of the loop
NewsFetch ==
    /\ tool = "news"
    /\ pc = "start"
    /\ IF NoLocation(location)
       THEN /\ result' = [kind |-> "location_not_provided"]
            /\ pc' = "done"
            /\ UNCHANGED <<requests, responses, items, filtered, idx>>
       ELSE /\ requests' = Append(requests, "news")
            /\ \E ok \in BOOLEAN :
                 IF ~ok
                 THEN /\ responses' = Append(responses, "error")
                      /\ Raise("RequestException")
                      /\ UNCHANGED <<items, filtered, idx>>
                 ELSE IF ~upstream.wellformed
                 THEN \* ET.ParseError is caught
                      /\ responses' = Append(responses, "ok")
                      /\ result' = [kind |-> "unable_to_parse", location |-> location]
                      /\ pc' = "done"
                      /\ UNCHANGED <<items, filtered, idx>>
                 ELSE /\ responses' = Append(responses, "ok")
                      /\ items' = upstream.items
                      /\ filtered' = <<>>
                      /\ idx' = 1
                      /\ pc' = "loop"
                      /\ UNCHANGED result
    /\ UNCHANGED <<flowVars, tool, location, interest, target_date, today, upstream,
                   coordinates, data, spots, seen, forecast>>

\* one iteration of "for item in items"
NewsLoopStep ==
    /\ tool = "news"
    /\ pc = "loop"
    /\ idx <= Len(items)
    /\ LET item == items[idx]
       IN  IF \/ DroppedOnDate(item, TargetDay(target_date, today))
              \/ DroppedOnKeywords(item, Keywords(interest))
           THEN UNCHANGED <<filtered, pc>>
           ELSE /\ filtered' = Append(filtered, HeadlineOf(item, today))
                /\ pc' = IF CapReached(filtered') THEN "after_loop" ELSE "loop"
    /\ idx' = idx + 1
    /\ UNCHANGED <<flowVars, responses, tool, location, interest, target_date, today,
                   upstream, requests,
                   coordinates, data, spots, seen, items, forecast, result>>

\* the loop ran out of items
NewsLoopEnd ==
    /\ tool = "news"
    /\ pc = "loop"
    /\ idx > Len(items)
    /\ pc' = "after_loop"
    /\ UNCHANGED <<flowVars, responses, tool, location, interest, target_date, today,
                   upstream, requests,
                   coordinates, data, idx, spots, seen, items, filtered, forecast, result>>

\* the fallback message, or the headlines
NewsReturn ==
    /\ tool = "news"
    /\ pc = "after_loop"
    /\ result' =
         IF filtered = <<>>
         THEN [kind |-> "no_date_matching",
               location |-> location,
               day |-> IsoFormat(TargetDay(target_date, today)),
               samples |-> IF FallbackTitles(items) # <<>>
                           THEN FallbackTitles(items) ELSE <<STR_NA>>]
         ELSE [kind |-> "city_news",
               location |-> location,
               day |-> IsoFormat(TargetDay(target_date, today)),
               headlines |-> filtered]
    /\ pc' = "done"
    /\ UNCHANGED <<flowVars, responses, tool, location, interest, target_date, today,
                   upstream, requests,
                   coordinates, data, idx, spots, seen, items, filtered, forecast>>

(***************************************************************************)
(* get_weather_outlook.                                                    *)
(***************************************************************************)
\* a rendered field: a value with its unit, or a fixed text
Shown(v, unit) == [v |-> v, unit |-> unit]

\* a variant whose default is 0
Pick_ZeroDefault(series) == IF series # <<>> THEN Some(series[1]) ELSE Some(0)

\* _pick(series): series[0], or "N/A"
Pick(series) == IF series # <<>> THEN Some(series[1]) ELSE None

\* a variant that reports the first hour
MaxOfSeq_FirstHour(s) == s[1]

\* max(series) of a non-empty series
RECURSIVE MaxOfSeq(_)
MaxOfSeq(s) ==
    IF Len(s) = 1 THEN s[1] ELSE Max2(s[Len(s)], MaxOfSeq(SubSeq(s, 1, Len(s) - 1)))

\* a variant that takes the lower middle element: series[(len(series) - 1) // 2]
Midpoint_LowerMiddle(series) == series[((Len(series) - 1) \div 2) + 1]

\* series[len(series) // 2]
Midpoint(series) == series[(Len(series) \div 2) + 1]

HourlySeries(base) == {[i \in 1..k |-> base + 10 * i] : k \in 0..MaxHourly}

Forecasts ==
    [daily : [temperature_2m_max : {<<>>, <<35>>},
              temperature_2m_min : {<<>>, <<24>>},
              precipitation_probability_max : {<<>>, <<30>>, <<95>>},
              sunrise : {<<>>, <<"05:42">>},
              sunset : {<<>>, <<"18:51">>}],
     hourly : [precipitation_probability : {<<>>, <<10, 90, 20>>},
               relative_humidity_2m : HourlySeries(40),
               temperature_2m : HourlySeries(20)]]

InitWeather ==
    /\ tool = "weather"
    /\ InitLocals
    /\ interest = None
    /\ today = 153
    /\ \/ /\ location \in Locations
          /\ target_date \in {None, Some(IsoStr(6, 1))}
          /\ upstream \in [geo : {<<>>, <<GeoBare>>}, forecast : {CHOOSE f \in Forecasts : TRUE}]
       \/ /\ location = "Hyderabad"
          /\ target_date = Some(IsoStr(6, 1))
          /\ upstream \in [geo : {<<GeoFull>>}, forecast : Forecasts]

WeatherUnlocated ==
    /\ tool = "weather"
    /\ pc = "looked_up"
    /\ coordinates = None
    /\ result' = [kind |-> "unable_to_locate", location |-> location]
    /\ pc' = "done"
    /\ UNCHANGED <<flowVars, responses, tool, location, interest, target_date, today,
                   upstream, requests,
                   coordinates, data, idx, spots, seen, items, filtered, forecast>>

\* _fetch_forecast(lat, lon, start_date=day_str, end_date=day_str)
WeatherFetch ==
    /\ tool = "weather"
    /\ pc = "looked_up"
    /\ coordinates # None
    /\ requests' = Append(requests, "forecast")
    /\ \E ok \in BOOLEAN :
         IF ok
         THEN /\ responses' = Append(responses, "ok")
              /\ forecast' = upstream.forecast
              /\ pc' = "fetched"
              /\ UNCHANGED result
         ELSE /\ responses' = Append(responses, "error")
              /\ Raise("RequestException")
              /\ UNCHANGED forecast
    /\ UNCHANGED <<flowVars, tool, location, interest, target_date, today, upstream,
                   coordinates, data, idx, spots, seen, items, filtered>>

\* the outlook built from the forecast
WeatherSummarize ==
    /\ tool = "weather"
    /\ pc = "fetched"
    /\ LET daily == forecast.daily
           hourly == forecast.hourly
           hourly_precip == hourly.precipitation_probability
           humidity == hourly.relative_humidity_2m
           temperature == hourly.temperature_2m
       IN  result' =
             [kind |-> "outlook",
              label |-> Val(coordinates).label,
              day |-> IsoFormat(TargetDay(target_date, today)),
              min_temp |-> Pick(daily.temperature_2m_min),
              max_temp |-> Pick(daily.temperature_2m_max),
              midday_temp |-> IF temperature # <<>>
                              THEN Some(Shown(Midpoint(temperature), "C")) ELSE None,
              humidity_snapshot |-> IF humidity # <<>>
                                    THEN Some(Shown(Midpoint(humidity), "%")) ELSE None,
              max_precip |-> Pick(daily.precipitation_probability_max),
              precip_risk |-> IF hourly_precip # <<>>
                              THEN Shown(MaxOfSeq(hourly_precip), "%")
                              ELSE Shown(0, "No precipitation data"),
              sunrise |-> Pick(daily.sunrise),
              sunset |-> Pick(daily.sunset)]
    /\ pc' = "done"
    /\ UNCHANGED <<flowVars, responses, tool, location, interest, target_date, today,
                   upstream, requests,
                   coordinates, data, idx, spots, seen, items, filtered, forecast>>

Init == InitWeather \/ InitNews \/ InitSpots

Next ==
    \/ LookupCoordinates
    \/ WeatherUnlocated
    \/ WeatherFetch
    \/ WeatherSummarize
    \/ NewsFetch
    \/ NewsLoopStep
    \/ NewsLoopEnd
    \/ NewsReturn
    \/ SpotsUnlocated
    \/ SpotsFetch
    \/ SpotsLoopStep
    \/ SpotsRender

Spec == Init /\ [][Next]_vars

(***************************************************************************)
(* plan_day_workflow (src/agents.py).  A call is made by run_plan or, with *)
(* any arguments, by another caller.  What a task's crew answers is opaque *)
(* to the workflow: an output is identified by the task that produced it   *)
(* and the description it was produced from.  kickoff() returns or raises. *)
(***************************************************************************)
STR_None_provided == <<"N", "o", "n", "e", " ", "p", "r", "o", "v", "i", "d", "e", "d">>
STR_No_additional_preferences_supplied ==
    <<"N", "o", " ", "a", "d", "d", "i", "t", "i", "o", "n", "a", "l", " ", "p", "r", "e", "f", "e", "r", "e", "n", "c", "e", "s", " ", "s", "u", "p", "p", "l", "i", "e", "d">>

\* "text or default" of an optional str
OrText(o, default) == IF TruthySeq(o) THEN Val(o) ELSE default

\* _stringify_output(crew.kickoff()) of the task built from the description
Out(task, description) == [task |-> task, from |-> description]

\* profile_description
ProfileDescription(args) == [plan_date |-> args.plan_date, user_context |-> args.user_data]

\* weather_description
WeatherDescription(args) ==
    [task |-> "weather", location |-> Val(args.user_data.location),
     date |-> args.plan_date]

\* insights_description
InsightsDescription(args) ==
    [task |-> "insights", location |-> Val(args.user_data.location),
     date |-> args.plan_date]

\* a variant that leaves the weather insights out of the description
PlanningDescription_WithoutWeather(args, p, w, l) ==
    [date |-> args.plan_date, profile |-> p, weather |-> None, local_insights |-> l,
     commitments |-> OrText(args.commitments, STR_None_provided),
     adjustments |-> OrText(args.adjustments, STR_No_additional_preferences_supplied)]

\* planning_description
PlanningDescription(args, p, w, l) ==
    [date |-> args.plan_date, profile |-> p, weather |-> w, local_insights |-> l,
     commitments |-> OrText(args.commitments, STR_None_provided),
     adjustments |-> OrText(args.adjustments, STR_No_additional_preferences_supplied)]

\* the returned dict
WorkflowResponse(args, p, w, l, plan) ==
    [persona |-> p, weather |-> w, local_insights |-> l, plan |-> plan,
     date |-> args.plan_date,
     commitments |-> OrText(args.commitments, <<>>),
     adjustments |-> OrText(args.adjustments, <<>>)]

\* the call: the arguments are bound, nothing has run
Called(args) ==
    /\ wf_args' = Some(args)
    /\ wf_pc' = "called"
    /\ profile' = None
    /\ weather' = None
    /\ local_insights' = None
    /\ events' = <<>>
    /\ wf_result' = NoResult

\* an exception leaves plan_day_workflow
WfRaise(exc) ==
    /\ wf_pc' = "raised"
    /\ wf_result' = [kind |-> "raised", exc |-> exc]

\* "if not user_data.get("location")" / "if not plan_date"
WfValidate ==
    /\ wf_pc = "called"
    /\ IF ~TruthyStr(Val(wf_args).user_data.location)
       THEN WfRaise("ValueError: Location is required to generate the day plan.")
       ELSE IF Val(wf_args).plan_date = ""
       THEN WfRaise("ValueError: Plan date is required.")
       ELSE wf_pc' = "step1" /\ UNCHANGED wf_result
    /\ UNCHANGED <<toolVars, session, shown, notice, script_pc, rp_pc, rp_args, log,
                   wf_args, profile, weather, local_insights, events>>

\* _notify(progress, stage, message): progress is called only when it is given;
\* the callback is run_plan's push, which appends to log
Notify(stage) ==
    /\ events' = Append(events, [ev |-> "notify", stage |-> stage,
                                 delivered |-> Val(wf_args).progress])
    /\ log' = IF Val(wf_args).progress THEN Append(log, stage) ELSE log

\* _run_single_task: the kickoff of a task, which returns or raises
Kickoff(stage, description, raised) ==
    events' = Append(events, [ev |-> "task", stage |-> stage,
                              description |-> description, raised |-> raised])

\* Step 1: Persona
NotifyPersona ==
    /\ wf_pc = "step1"
    /\ Notify("persona")
    /\ wf_pc' = "persona"
    /\ UNCHANGED <<toolVars, session, shown, notice, script_pc, rp_pc, rp_args,
                   wf_args, profile, weather, local_insights, wf_result>>

RunPersona ==
    /\ wf_pc = "persona"
    /\ \E raised \in BOOLEAN :
         /\ Kickoff("persona", ProfileDescription(Val(wf_args)), raised)
         /\ IF raised
            THEN WfRaise("TaskError") /\ UNCHANGED profile
            ELSE /\ profile' = Some(Out("persona", ProfileDescription(Val(wf_args))))
                 /\ wf_pc' = "step2"
                 /\ UNCHANGED wf_result
    /\ UNCHANGED <<toolVars, session, shown, notice, script_pc, rp_pc, rp_args, log,
                   wf_args, weather, local_insights>>

\* Step 2: Weather
NotifyWeather ==
    /\ wf_pc = "step2"
    /\ Notify("weather")
    /\ wf_pc' = "weather"
    /\ UNCHANGED <<toolVars, session, shown, notice, script_pc, rp_pc, rp_args,
                   wf_args, profile, weather, local_insights, wf_result>>

RunWeather ==
    /\ wf_pc = "weather"
    /\ \E raised \in BOOLEAN :
         /\ Kickoff("weather", WeatherDescription(Val(wf_args)), raised)
         /\ IF raised
            THEN WfRaise("TaskError") /\ UNCHANGED weather
            ELSE /\ weather' = Some(Out("weather", WeatherDescription(Val(wf_args))))
                 /\ wf_pc' = "step3"
                 /\ UNCHANGED wf_result
    /\ UNCHANGED <<toolVars, session, shown, notice, script_pc, rp_pc, rp_args, log,
                   wf_args, profile, local_insights>>

\* Step 3: Local Insights
NotifyInsights ==
    /\ wf_pc = "step3"
    /\ Notify("insights")
    /\ wf_pc' = "insights"
    /\ UNCHANGED <<toolVars, session, shown, notice, script_pc, rp_pc, rp_args,
                   wf_args, profile, weather, local_insights, wf_result>>

RunInsights ==
    /\ wf_pc = "insights"
    /\ \E raised \in BOOLEAN :
         /\ Kickoff("insights", InsightsDescription(Val(wf_args)), raised)
         /\ IF raised
            THEN WfRaise("TaskError") /\ UNCHANGED local_insights
            ELSE /\ local_insights' =
                       Some(Out("insights", InsightsDescription(Val(wf_args))))
                 /\ wf_pc' = "step4"
                 /\ UNCHANGED wf_result
    /\ UNCHANGED <<toolVars, session, shown, notice, script_pc, rp_pc, rp_args, log,
                   wf_args, profile, weather>>

\* Step 4: Final Plan
NotifyPlanning ==
    /\ wf_pc = "step4"
    /\ Notify("planning")
    /\ wf_pc' = "planning"
    /\ UNCHANGED <<toolVars, session, shown, notice, script_pc, rp_pc, rp_args,
                   wf_args, profile, weather, local_insights, wf_result>>

\* the planning task and, when it returns, the return of the dict
RunPlanning ==
    /\ wf_pc = "planning"
    /\ LET description == PlanningDescription(Val(wf_args), Val(profile), Val(weather),
                                              Val(local_insights))
       IN  \E raised \in BOOLEAN :
             /\ Kickoff("planning", description, raised)
             /\ IF raised
                THEN WfRaise("TaskError")
                ELSE /\ wf_pc' = "returned"
                     /\ wf_result' =
                          [kind |-> "returned",
                           value |-> WorkflowResponse(Val(wf_args), Val(profile),
                                                      Val(weather), Val(local_insights),
                                                      Out("planning", description))]
    /\ UNCHANGED <<toolVars, session, shown, notice, script_pc, rp_pc, rp_args, log,
                   wf_args, profile, weather, local_insights>>

(***************************************************************************)
(* The page (src/app.py).  Streamlit runs the script from top to bottom    *)
(* once per interaction: the plan form, then the results block, then the   *)
(* feedback form that the results block contains.                          *)
(***************************************************************************)
\* "text.strip() or None"
StripOrNone(text) == IF Strip(text) = <<>> THEN None ELSE Some(Strip(text))

\* payload of the plan form (the fields the workflow tests)
UserData(form) ==
    [name |-> form.name, email |-> form.email, location |-> Some(form.location)]

\* what the plan form stores as latest_inputs and passes to run_plan
InputsOf(form) ==
    [user_data |-> UserData(form), plan_date |-> form.plan_date,
     commitments |-> StripOrNone(form.commitments)]

\* run_plan, from its call to its call of plan_day_workflow with progress=push
RunPlanCall(user_data, plan_date_iso, commitments, adjustments) ==
    /\ rp_args' = Some([user_data |-> user_data, plan_date |-> plan_date_iso,
                        commitments |-> commitments, adjustments |-> adjustments])
    /\ log' = <<>>
    /\ rp_pc' = "in_workflow"
    /\ Called([user_data |-> user_data, plan_date |-> plan_date_iso,
               commitments |-> commitments, adjustments |-> adjustments,
               progress |-> TRUE])

\* the three assignments to st.session_state that end the try block
Written(state, response, status_log, args) ==
    [state EXCEPT !.result = Some(response),
                  !.last_status_log = Some(status_log),
                  !.last_payload = Some([user_data |-> args.user_data,
                                         plan_date |-> args.plan_date,
                                         commitments |-> args.commitments])]

\* where the script goes on when run_plan returns: the plan form is followed
\* by the results block, the feedback form is the end of the script
AfterRunPlan == IF script_pc = "plan_form" THEN "results" ELSE "idle"

\* what the user may type
Forms ==
    { [name |-> "Asha", email |-> "asha@example.org", location |-> "Hyderabad",
       plan_date |-> "2025-06-01", commitments |-> <<" ">>],
      [name |-> "Asha", email |-> "asha@example.org", location |-> "Pune",
       plan_date |-> "2025-06-02", commitments |-> <<" ", "G", "y", "m">>],
      [name |-> "", email |-> "asha@example.org", location |-> "Pune",
       plan_date |-> "2025-06-02", commitments |-> <<>>],
      [name |-> "Asha", email |-> "asha@example.org", location |-> "",
       plan_date |-> "2025-06-01", commitments |-> <<>>] }

Feedbacks == {<<" ">>, <<"r", "e", "s", "t">>, <<" ", "w", "a", "l", "k", " ">>}

\* "if submit:" of the plan form
PlanFormSubmit ==
    /\ script_pc = "idle"
    /\ \E form \in Forms :
         IF form.name = "" \/ form.email = "" \/ form.location = ""
         THEN /\ notice' = Some("Name, email, and location are required.")
              /\ script_pc' = "results"
              /\ UNCHANGED <<session, rp_pc, rp_args, log, wf_pc, wf_args, profile,
                             weather, local_insights, events, wf_result>>
         ELSE /\ session' = [session EXCEPT !.latest_inputs = Some(InputsOf(form))]
              /\ notice' = None
              /\ script_pc' = "plan_form"
              /\ RunPlanCall(UserData(form), form.plan_date,
                             StripOrNone(form.commitments), None)
    /\ UNCHANGED <<toolVars, shown>>

\* push("done", ...)
RunPlanPush ==
    /\ rp_pc = "in_workflow"
    /\ wf_pc = "returned"
    /\ log' = Append(log, "done")
    /\ rp_pc' = "pushed"
    /\ UNCHANGED <<toolVars, session, shown, notice, script_pc, rp_args, wf_pc, wf_args,
                   profile, weather, local_insights, events, wf_result>>

\* st.session_state["result"] / ["last_status_log"] / ["last_payload"] = ...
RunPlanPublish ==
    /\ rp_pc = "pushed"
    /\ session' = Written(session, wf_result.value, log, Val(rp_args))
    /\ rp_pc' = "none"
    /\ script_pc' = AfterRunPlan
    /\ UNCHANGED <<toolVars, shown, notice, rp_args, log, wf_pc, wf_args, profile,
                   weather, local_insights, events, wf_result>>

\* "except Exception as exc: st.error(...)"
RunPlanExcept ==
    /\ rp_pc = "in_workflow"
    /\ wf_pc = "raised"
    /\ notice' = Some("Plan generation failed")
    /\ rp_pc' = "none"
    /\ script_pc' = AfterRunPlan
    /\ UNCHANGED <<toolVars, session, shown, rp_args, log, wf_pc, wf_args, profile,
                   weather, local_insights, events, wf_result>>

\* "result = st.session_state.get("result")" and the block that renders it
ResultsBlock ==
    /\ script_pc = "results"
    /\ shown' = session.result
    /\ script_pc' = "idle"
    /\ UNCHANGED <<toolVars, session, notice, rp_pc, rp_args, log, wf_pc, wf_args,
                   profile, weather, local_insights, events, wf_result>>

\* a click on "Regenerate with feedback": the script renders the results
\* block, in which the form stands, and then handles "if regen:"
FeedbackSubmit ==
    /\ script_pc = "idle"
    /\ shown # None
    /\ shown' = session.result
    /\ \E feedback \in Feedbacks :
         LET payload == IF session.last_payload # None THEN session.last_payload
                        ELSE session.latest_inputs
         IN  IF Strip(feedback) = <<>>
             THEN /\ notice' = Some("Please describe what you'd like to change")
                  /\ UNCHANGED <<script_pc, rp_pc, rp_args, log, wf_pc, wf_args, profile,
                                 weather, local_insights, events, wf_result>>
             ELSE IF payload = None
             THEN /\ notice' = Some("I couldn't find your previous inputs")
                  /\ UNCHANGED <<script_pc, rp_pc, rp_args, log, wf_pc, wf_args, profile,
                                 weather, local_insights, events, wf_result>>
             ELSE /\ notice' = None
                  /\ script_pc' = "feedback_form"
                  /\ RunPlanCall(Val(payload).user_data, Val(payload).plan_date,
                                 Val(payload).commitments, Some(Strip(feedback)))
    /\ UNCHANGED <<toolVars, session>>

\* a click on "Send Plan to Mail": the script renders the results block and
\* reports how the dispatch went
SendPlanToMail ==
    /\ script_pc = "idle"
    /\ shown # None
    /\ shown' = session.result
    /\ notice' = Some("mail status")
    /\ UNCHANGED <<toolVars, session, script_pc, rp_pc, rp_args, log, wf_pc, wf_args,
                   profile, weather, local_insights, events, wf_result>>

\* the calls of plan_day_workflow that come from elsewhere than the page
DirectCalls ==
    [user_data : {[name |-> "Asha", email |-> "asha@example.org", location |-> l]
                     : l \in {None, Some(""), Some("Hyderabad")}},
     plan_date : {"", "2025-06-01"},
     commitments : {None, Some(<<>>), Some(<<"G", "y", "m">>)},
     adjustments : {None, Some(<<"r", "e", "s", "t">>)},
     progress : BOOLEAN]

\* no tool function is running
ToolIdle ==
    /\ tool = "none"
    /\ pc = "idle"
    /\ location = ""
    /\ interest = None
    /\ target_date = None
    /\ today = 153
    /\ upstream = <<>>
    /\ requests = <<>>
    /\ responses = <<>>
    /\ coordinates = None
    /\ data = <<>>
    /\ idx = 1
    /\ spots = <<>>
    /\ seen = {}
    /\ items = <<>>
    /\ filtered = <<>>
    /\ forecast = <<>>
    /\ result = NoResult

\* a fresh session of the page
InitPage == FlowIdle

\* plan_day_workflow has just been called, with a recording callback or none
InitDirectCall ==
    /\ session = [result |-> None, last_status_log |-> None, last_payload |-> None,
                  latest_inputs |-> None]
    /\ shown = None
    /\ notice = None
    /\ script_pc = "none"
    /\ rp_pc = "none"
    /\ rp_args = None
    /\ log = <<>>
    /\ wf_pc = "called"
    /\ wf_args \in {Some(args) : args \in DirectCalls}
    /\ profile = None
    /\ weather = None
    /\ local_insights = None
    /\ events = <<>>
    /\ wf_result = NoResult

InitFlow == ToolIdle /\ (InitPage \/ InitDirectCall)

NextFlow ==
    \/ WfValidate
    \/ NotifyPersona
    \/ RunPersona
    \/ NotifyWeather
    \/ RunWeather
    \/ NotifyInsights
    \/ RunInsights
    \/ NotifyPlanning
    \/ RunPlanning
    \/ PlanFormSubmit
    \/ RunPlanPush
    \/ RunPlanPublish
    \/ RunPlanExcept
    \/ ResultsBlock
    \/ FeedbackSubmit
    \/ SendPlanToMail

SpecFlow == InitFlow /\ [][NextFlow]_vars

(***************************************************************************)
(* The properties.                                                         *)
(***************************************************************************)
SpotsRunning == tool = "spots" /\ pc \in {"loop", "done"}
SpotsRendered == tool = "spots" /\ pc = "done" /\ result.kind = "venues"

\* the distance the loop computes for an element whose coordinates it resolves
DistanceOf(element) ==
    KmDistance(Val(coordinates).lat, Val(coordinates).lon,
               Val(ElemLat(element)), Val(ElemLon(element)))

\* the position in the response of the element a venue was built from: the
\* first element of that name whose coordinates the loop resolves
SourceIdx(name) ==
    MinOf({i \in 1..Len(data) :
              data[i].tags.name = Some(name) /\ ~SkippedOnCoords(data[i])})

\* the element carries no direct lat/lon and no center
LacksCoords(element) ==
    IsNone(element.lat) /\ IsNone(element.lon) /\ IsNone(element.center)

\* C1: with an empty location, get_weather_outlook and get_local_spots issue
\* no request, never raise, and return the "Unable to locate coordinates"
\* message for that location.
C1_EmptyLocationIsSoft ==
    (tool \in {"weather", "spots"} /\ location = "") =>
        /\ requests = <<>>
        /\ pc # "raised"
        /\ result.kind # "raised"
        /\ pc = "done" => result = [kind |-> "unable_to_locate", location |-> ""]

C1_Witness ==
    /\ tool = "spots" /\ location = "" /\ pc = "done"
    /\ result.kind = "unable_to_locate"

\* C2: the rendered venues are the leading venues of the sorted list, their
\* scores never decrease down the list, and two rendered venues of equal score
\* stand in the order of the response elements they were built from.
C2_SortedAndStable ==
    SpotsRendered =>
        \A i, j \in 1..Len(result.lines) :
            i < j =>
                /\ result.lines[i].name = spots[i].name
                /\ result.lines[j].name = spots[j].name
                /\ spots[i].score <= spots[j].score
                /\ spots[i].score = spots[j].score =>
                       SourceIdx(spots[i].name) < SourceIdx(spots[j].name)

\* three rendered venues, the last two tied behind a venue that was built from a
\* later element than both
C2_Witness ==
    /\ SpotsRendered
    /\ Len(result.lines) >= 3
    /\ spots[1].score < spots[2].score
    /\ spots[2].score = spots[3].score
    /\ SourceIdx(spots[1].name) > SourceIdx(spots[3].name)

\* C3: an element without direct lat/lon and without center never becomes a
\* venue (every venue carries the distance of a same-named element that has
\* coordinates), and it does not mark its name as seen: the first later
\* element of that name whose coordinates resolve becomes the venue.
C3_CoordlessElementIsInert ==
    SpotsRunning =>
        /\ \A k \in 1..Len(spots) :
              \E j \in 1..(idx - 1) :
                  /\ data[j].tags.name = Some(spots[k].name)
                  /\ ~LacksCoords(data[j])
                  /\ ~SkippedOnCoords(data[j])
                  /\ spots[k].distance = DistanceOf(data[j])
        /\ \A j \in 1..(idx - 1) :
              ( /\ TruthyStr(data[j].tags.name)
                /\ ~SkippedOnCoords(data[j])
                /\ \E i \in 1..(j - 1) : data[i].tags.name = data[j].tags.name
                /\ \A i \in 1..(j - 1) :
                      data[i].tags.name = data[j].tags.name => LacksCoords(data[i]) )
              => \E k \in 1..Len(spots) :
                     /\ spots[k].name = Val(data[j].tags.name)
                     /\ spots[k].distance = DistanceOf(data[j])

C3_Witness ==
    /\ tool = "spots" /\ pc = "done"
    /\ Len(data) >= 2
    /\ data[1].tags.name = Some("A") /\ LacksCoords(data[1])
    /\ data[2].tags.name = Some("A") /\ ~SkippedOnCoords(data[2])
    /\ \E k \in 1..Len(spots) : spots[k].name = "A"

\* the element carries a direct latitude and longitude, or a center latitude
\* and longitude, whatever their values
CarriesCoords(element) ==
    \/ ~IsNone(element.lat) /\ ~IsNone(element.lon)
    \/ /\ ~IsNone(element.center)
       /\ ~IsNone(Val(element.center).lat)
       /\ ~IsNone(Val(element.center).lon)

\* C4: every examined element that has a name and carries a direct lat/lon
\* (of any value, 0 included) or a center lat/lon is collected under its name:
\* none is skipped on coordinate grounds.
C4_CoordsPresentMeansCollected ==
    SpotsRunning =>
        \A j \in 1..(idx - 1) :
            (TruthyStr(data[j].tags.name) /\ CarriesCoords(data[j]))
            => \E k \in 1..Len(spots) : spots[k].name = Val(data[j].tags.name)

\* the first element of the response that carries the name
FirstNamed(name) ==
    MinOf({i \in 1..Len(data) : data[i].tags.name = Some(name)})

\* no two venues share a name and no venue has an empty name
UniqueNamedVenues ==
    /\ \A k, l \in 1..Len(spots) : spots[k].name = spots[l].name => k = l
    /\ \A k \in 1..Len(spots) : spots[k].name # ""
    /\ Len(spots) =
         Cardinality({Val(data[j].tags.name) :
                         j \in {i \in 1..(idx - 1) :
                                   TruthyStr(data[i].tags.name) /\ ~SkippedOnCoords(data[i])}})

\* no element of the response has a direct coordinate equal to 0
NoZeroCoords ==
    \A i \in 1..Len(data) : data[i].lat # Some(0) /\ data[i].lon # Some(0)

\* C5 as stated: venues have distinct, non-empty names, and the venue of a name
\* is built from the first element of the response that carries that name.
\* Stated for the responses without a zero coordinate, where the skip of C4
\* plays no part.
C5_FirstCarrierWins ==
    (SpotsRunning /\ NoZeroCoords) =>
        /\ UniqueNamedVenues
        /\ \A k \in 1..Len(spots) :
              /\ ~SkippedOnCoords(data[FirstNamed(spots[k].name)])
              /\ spots[k] = SpotOf(data[FirstNamed(spots[k].name)], Val(coordinates),
                                   InterestLower(interest))

\* C5, amended: venues have distinct, non-empty names, and the venue of a name
\* is built from the first element of the response that carries that name and
\* is not skipped for want of coordinates.
C5_FirstResolvedCarrierWins ==
    SpotsRunning =>
        /\ UniqueNamedVenues
        /\ \A k \in 1..Len(spots) :
              spots[k] = SpotOf(data[SourceIdx(spots[k].name)], Val(coordinates),
                                InterestLower(interest))

\* two elements named A with coordinates at different distances: the venue has
\* the distance of the first
C5_Witness ==
    /\ tool = "spots" /\ pc = "done"
    /\ Len(data) >= 2
    /\ data[1].tags.name = Some("A") /\ data[2].tags.name = Some("A")
    /\ ~SkippedOnCoords(data[1]) /\ ~SkippedOnCoords(data[2])
    /\ DistanceOf(data[1]) # DistanceOf(data[2])
    /\ Len(spots) = 1
    /\ spots[1].distance = DistanceOf(data[1])

\* the bonus of C6, in units of 0.5 km: 2 km for cricket at a stadium, 1.5 km
\* for movie at a cinema, 1 km for game, gaming or mall at a "Mall"
ClaimedBonus(label, interest_arg) ==
    LET text == IF IsNone(interest_arg) THEN <<>> ELSE Lower(Val(interest_arg))
        has(w) == Contains(w, text)
        in_label(w) == Contains(w, Lower(label))
    IN  (IF has(STR_cricket) /\ in_label(STR_stadium) THEN 4 ELSE 0)
        + (IF has(STR_movie) /\ in_label(STR_cinema) THEN 3 ELSE 0)
        + (IF (has(STR_game) \/ has(STR_gaming) \/ has(STR_mall)) /\ label = STR_Mall
           THEN 2 ELSE 0)

\* C6: every venue's score is max(0, distance - bonus), so none is negative; a
\* Stadium at 3.0 km with a cricket interest scores 1.0 and is rendered before
\* every venue without bonus at 2.5 km.
C6_ScoreIsFlooredDistanceMinusBonus ==
    SpotsRunning =>
        /\ \A k \in 1..Len(spots) :
              /\ spots[k].score =
                    Max2(0, spots[k].distance - ClaimedBonus(spots[k].label, interest))
              /\ spots[k].score >= 0
              /\ (IsNone(interest) \/ interest = Some(<<>>)) =>
                    spots[k].score = spots[k].distance
        /\ pc = "done" =>
              \A k, l \in 1..Len(spots) :
                  ( /\ ~IsNone(interest)
                    /\ Contains(STR_cricket, Lower(Val(interest)))
                    /\ spots[k].label = STR_Stadium /\ spots[k].distance = 6
                    /\ ClaimedBonus(spots[l].label, interest) = 0
                    /\ spots[l].distance = 5 )
                  => (spots[k].score = 2 /\ k < l)

\* the example of C6, with the stadium after the other venue in the response
C6_Witness ==
    /\ SpotsRendered
    /\ interest = Some(<<"C", "r", "i", "c", "k", "e", "t">>)
    /\ Len(data) = 2
    /\ TagLabel(data[1].tags) = STR_Park /\ DistanceOf(data[1]) = 5
    /\ TagLabel(data[2].tags) = STR_Stadium /\ DistanceOf(data[2]) = 6
    /\ spots[1].label = STR_Stadium /\ spots[1].score = 2
    /\ result.lines[1].name = "V2"

\* C7: at most 7 venues are rendered; they are the first 7 (or all) of the
\* deduplicated, score-sorted list, in its order, and no omitted venue has a
\* lower score than a rendered one.
C7_TopSevenOfSorted ==
    SpotsRendered =>
        /\ Len(result.lines) <= 7
        /\ Len(result.lines) = Min2(7, Len(spots))
        /\ \A i \in 1..Len(result.lines) : result.lines[i] = LineOf(spots[i])
        /\ \A i, j \in 1..Len(spots) : i < j => spots[i].score <= spots[j].score
        /\ \A i \in 1..Len(result.lines) :
              \A k \in (Len(result.lines) + 1)..Len(spots) :
                  spots[k].score >= spots[i].score
        /\ \A j \in 1..Len(data) :
              ~(SkippedOnName(data[j], {}) \/ SkippedOnCoords(data[j]))
              => \E k \in 1..Len(spots) : spots[k].name = Val(data[j].tags.name)

\* more than 7 venues, the last element of the response is rendered and an
\* earlier one is omitted
C7_Witness ==
    /\ SpotsRendered
    /\ Len(spots) > 7
    /\ Len(result.lines) = 7
    /\ \E i \in 1..7 : result.lines[i].name = Val(data[Len(data)].tags.name)
    /\ spots[8].score > spots[7].score

NewsRunning == tool = "news" /\ pc \in {"loop", "after_loop", "done"}

TargetOfRun == TargetDay(target_date, today)

\* the UTC day an item's pubDate parses to; None when it is absent or unparseable
PubDay(item) ==
    IF IsNone(item.pubDate) \/ IsNone(ParseUtcHours(Val(item.pubDate)))
    THEN None
    ELSE Some(UtcDay(Val(ParseUtcHours(Val(item.pubDate)))))

\* the item's title or description contains the keyword, case-insensitively
Mentions(item, keyword) ==
    \/ Contains(keyword, Lower(TitleOf(item)))
    \/ Contains(keyword, Lower(DescriptionOf(item)))

KeywordsOfRun == Keywords(interest)

\* the item passes the keyword filter: no keywords, or it mentions one of them
PassesKeywords(item) ==
    KeywordsOfRun = <<>> \/ \E k \in 1..Len(KeywordsOfRun) : Mentions(item, KeywordsOfRun[k])

\* the item passes the date filter
PassesDate(item) == IsNone(PubDay(item)) \/ PubDay(item) = Some(TargetOfRun)

\* the positions of the items that pass both filters
Survivors == {i \in 1..Len(items) : PassesDate(items[i]) /\ PassesKeywords(items[i])}

\* the k-th smallest member of a set of integers
Kth(S, k) == CHOOSE i \in S : Cardinality({j \in S : j <= i}) = k

FilteredLinks == {filtered[k].link : k \in 1..Len(filtered)}

\* C8: an item whose pubDate parses to a UTC day other than the target day is
\* never among the headlines, whatever keywords it mentions; an examined item
\* whose pubDate is absent or unparseable is a headline whenever it passes the
\* keyword filter.
C8_DateFilterFirst ==
    NewsRunning =>
        /\ \A i \in 1..Len(items) :
              (~IsNone(PubDay(items[i])) /\ PubDay(items[i]) # Some(TargetOfRun))
              => items[i].link \notin FilteredLinks
        /\ \A i \in 1..(idx - 1) :
              (IsNone(PubDay(items[i])) /\ PassesKeywords(items[i]))
              => items[i].link \in FilteredLinks
        /\ pc = "done" /\ result.kind = "city_news" => result.headlines = filtered

\* an item dated 23:00 -0500 on the target day (the next day in UTC) mentions
\* every keyword and is dropped; an item with an unparseable date is kept
C8_Witness ==
    /\ tool = "news" /\ pc = "done"
    /\ target_date = Some(IsoStr(6, 1))
    /\ Len(KeywordsOfRun) = 2
    /\ Len(items) = 2
    /\ items[1].pubDate = Some(Rfc(1, 6, 23, -5))
    /\ \A k \in 1..Len(KeywordsOfRun) : Mentions(items[1], KeywordsOfRun[k])
    /\ items[2].pubDate = Some(Garbage)
    /\ FilteredLinks = {items[2].link}

\* C9: the headlines are the first 5 survivors of the two filters (all of them
\* when there are fewer), in feed order, and the loop examines nothing after
\* the fifth survivor.
C9_FirstFiveSurvivors ==
    (tool = "news" /\ pc \in {"after_loop", "done"}) =>
        /\ Len(filtered) <= 5
        /\ Len(filtered) = Min2(5, Cardinality(Survivors))
        /\ \A k \in 1..Len(filtered) : filtered[k].link = items[Kth(Survivors, k)].link
        /\ idx - 1 = IF Cardinality(Survivors) >= 5 THEN Kth(Survivors, 5) ELSE Len(items)
        /\ pc = "done" /\ filtered # <<>> =>
              result.kind = "city_news" /\ result.headlines = filtered

\* six or more survivors, with a dropped item among the first five
C9_Witness ==
    /\ tool = "news" /\ pc = "done"
    /\ Cardinality(Survivors) >= 6
    /\ Len(filtered) = 5
    /\ idx - 1 > 5
    /\ idx - 1 < Len(items)

\* C10: with a location given and the feed parsed, a run in which no item
\* survives the filters returns the "No date-matching headlines found" message
\* with the titles of the first min(3, n) items of the feed, or "N/A" for an
\* empty feed; an exception is raised only by the request, before the feed is
\* read.
C10_FallbackNamesFirstThree ==
    /\ (tool = "news" /\ pc = "done" /\ location # ""
          /\ result.kind \notin {"unable_to_parse"} /\ Survivors = {})
       => /\ result.kind = "no_date_matching"
          /\ result.location = location
          /\ result.day = IsoFormat(TargetOfRun)
          /\ result.samples =
                IF items = <<>> THEN <<STR_NA>>
                ELSE [i \in 1..Min2(3, Len(items)) |-> TitleOf(items[i])]
    /\ (tool = "news" /\ pc = "raised")
       => (requests = <<"news">> /\ items = <<>> /\ idx = 1)
    /\ (tool = "news" /\ pc \in {"loop", "after_loop"}) => result = NoResult

\* a feed of more than three items, none on the target day
C10_Witness ==
    /\ tool = "news" /\ pc = "done"
    /\ result.kind = "no_date_matching"
    /\ Len(items) > 3
    /\ Len(result.samples) = 3
    /\ \A i \in 1..Len(items) : ~PassesDate(items[i])

\* the items the filter keeps of this run's feed
KeptItems == FilterItems(items, TargetOfRun, KeywordsOfRun)

LinksOf(s) == [k \in 1..Len(s) |-> s[k].link]

\* C11: the headlines of a finished loop are those of the items that the
\* filter, as a function of the feed, the target day and the keywords alone,
\* keeps, in the same order; and the filter applied to the items it kept
\* keeps all of them, in the same order.
C11_FilterIsIdempotent ==
    (tool = "news" /\ pc \in {"after_loop", "done"}) =>
        /\ LinksOf(filtered) = LinksOf(KeptItems)
        /\ FilterItems(KeptItems, TargetOfRun, KeywordsOfRun) = KeptItems

\* a feed of which the filter drops an item, keeps five and leaves the rest
C11_Witness ==
    /\ tool = "news" /\ pc = "done"
    /\ Len(KeptItems) = 5
    /\ \E i \in 1..Len(items) : i < idx /\ items[i].link \notin FilteredLinks
    /\ idx <= Len(items)
    /\ FilterItems(KeptItems, TargetOfRun, KeywordsOfRun) # items

(***************************************************************************)
(* The weather outlook.  In the returned record the text "N/A" is None,    *)
(* a value v with its unit is Some(v) or Some(Shown(v, unit)), and the     *)
(* hourly peak is Shown(v, "%") or the fixed text "No precipitation data". *)
(***************************************************************************)
OutlookReturned == tool = "weather" /\ pc = "done" /\ result.kind = "outlook"

NA == None
NoPrecipitationData == Shown(0, "No precipitation data")

\* the seven fields that _pick and the two midpoint expressions fill
NAWhereMissing ==
    /\ forecast.daily.temperature_2m_min = <<>> => result.min_temp = NA
    /\ forecast.daily.temperature_2m_max = <<>> => result.max_temp = NA
    /\ forecast.daily.sunrise = <<>> => result.sunrise = NA
    /\ forecast.daily.sunset = <<>> => result.sunset = NA
    /\ forecast.daily.precipitation_probability_max = <<>> => result.max_precip = NA
    /\ forecast.hourly.relative_humidity_2m = <<>> => result.humidity_snapshot = NA
    /\ forecast.hourly.temperature_2m = <<>> => result.midday_temp = NA

\* a fetched forecast always yields an outlook: only a request raises
SummaryNeverFails ==
    /\ (tool = "weather" /\ pc = "raised") =>
           (forecast = <<>> /\ responses[Len(responses)] = "error")
    /\ (tool = "weather" /\ pc = "done" /\ forecast # <<>>) => result.kind = "outlook"

\* C12 as stated: every missing or empty series, the hourly precipitation
\* series included, is rendered as "N/A", and the call does not fail.
C12_EveryMissingSeriesIsNA ==
    /\ SummaryNeverFails
    /\ OutlookReturned =>
          /\ NAWhereMissing
          /\ forecast.hourly.precipitation_probability = <<>> => result.precip_risk = NA

\* C12, amended: a missing or empty min/max temperature, sunrise, sunset,
\* daily precipitation maximum, hourly humidity or hourly temperature series
\* is rendered as "N/A"; a missing or empty hourly precipitation series is
\* rendered as "No precipitation data"; and the call does not fail.
C12_MissingSeriesPlaceholders ==
    /\ SummaryNeverFails
    /\ OutlookReturned =>
          /\ NAWhereMissing
          /\ forecast.hourly.precipitation_probability = <<>> =>
                result.precip_risk = NoPrecipitationData

\* a forecast with every series empty
C12_Witness ==
    /\ OutlookReturned
    /\ \A k \in DOMAIN forecast.daily : forecast.daily[k] = <<>>
    /\ \A k \in DOMAIN forecast.hourly : forecast.hourly[k] = <<>>
    /\ result.precip_risk = NoPrecipitationData
    /\ result.sunrise = NA

\* floor(n / 2): the k with 2k <= n < 2k + 2
HalfFloor(n) == CHOOSE k \in 0..n : 2 * k <= n /\ n < 2 * k + 2

\* the element at 0-based index i
At0(series, i) == series[i + 1]

\* C13: when the hourly humidity series has n >= 1 elements the humidity
\* snapshot is its element at 0-based index floor(n / 2), and when the hourly
\* temperature series has m >= 1 elements the midday temperature is its
\* element at 0-based index floor(m / 2).
C13_MidpointOfOwnSeries ==
    OutlookReturned =>
        LET humidity == forecast.hourly.relative_humidity_2m
            temperature == forecast.hourly.temperature_2m
        IN  /\ Len(humidity) >= 1 =>
                  result.humidity_snapshot =
                      Some(Shown(At0(humidity, HalfFloor(Len(humidity))), "%"))
            /\ Len(temperature) >= 1 =>
                  result.midday_temp =
                      Some(Shown(At0(temperature, HalfFloor(Len(temperature))), "C"))

\* the two series differ in length, and one of them has an even length
C13_Witness ==
    /\ OutlookReturned
    /\ Len(forecast.hourly.relative_humidity_2m) = 3
    /\ Len(forecast.hourly.temperature_2m) = 2
    /\ result.humidity_snapshot = Some(Shown(forecast.hourly.relative_humidity_2m[2], "%"))
    /\ result.midday_temp = Some(Shown(forecast.hourly.temperature_2m[2], "C"))

\* C14: for a non-empty hourly precipitation series the hourly peak of the
\* outlook is the largest element of that series, as a percentage, whatever
\* the daily precipitation maximum is: [10, 90, 20] gives 90%.
C14_HourlyPeakIsSeriesMax ==
    OutlookReturned =>
        LET hourly_precip == forecast.hourly.precipitation_probability
        IN  hourly_precip # <<>> =>
              /\ result.precip_risk.unit = "%"
              /\ \E i \in 1..Len(hourly_precip) : result.precip_risk.v = hourly_precip[i]
              /\ \A i \in 1..Len(hourly_precip) : result.precip_risk.v >= hourly_precip[i]
              /\ hourly_precip = <<10, 90, 20>> => result.precip_risk = Shown(90, "%")

\* the daily maximum is above the hourly peak and reported next to it
C14_Witness ==
    /\ OutlookReturned
    /\ forecast.hourly.precipitation_probability = <<10, 90, 20>>
    /\ forecast.daily.precipitation_probability_max = <<95>>
    /\ result.max_precip = Some(95)
    /\ result.precip_risk = Shown(90, "%")

\* a request of this invocation ended in a timeout or a non-2xx status
TransportFailed == \E i \in 1..Len(responses) : responses[i] = "error"

\* C15: once a request of a tool has failed, the invocation has ended with
\* the request's exception and no returned value, the failed request is the
\* last one issued, and no request is ever issued twice.
C15_TransportFailurePropagates ==
    /\ Len(responses) = Len(requests)
    /\ \A i, j \in 1..Len(requests) : i # j => requests[i] # requests[j]
    /\ TransportFailed =>
          /\ pc = "raised"
          /\ result = [kind |-> "raised", exc |-> "RequestException"]
          /\ responses[Len(responses)] = "error"
          /\ \A i \in 1..(Len(responses) - 1) : responses[i] = "ok"
    /\ pc = "done" => result.kind \notin {"raised", "none"}

\* the second request of get_local_spots fails after the geocoder answered
C15_Witness ==
    /\ tool = "spots"
    /\ requests = <<"geocode", "overpass">>
    /\ responses = <<"ok", "error">>
    /\ pc = "raised"
    /\ result.kind = "raised"
    /\ data = <<>> /\ spots = <<>>

(***************************************************************************)
(* The workflow.                                                           *)
(***************************************************************************)
\* the four steps in the order the claim gives them
ClaimedSteps == <<"persona", "weather", "insights", "planning">>

WorkflowCalled == wf_args # None

\* the call was given a progress callback
WithCallback == WorkflowCalled /\ Val(wf_args).progress

\* the _notify calls and the kickoffs alternate, step by step, each at most once
StrictlySequential ==
    /\ Len(events) <= 2 * Len(ClaimedSteps)
    /\ \A i \in 1..Len(events) :
          /\ events[i].stage = ClaimedSteps[(i + 1) \div 2]
          /\ events[i].ev = IF i % 2 = 1 THEN "notify" ELSE "task"

\* how often the callback has been called for a stage
TimesEmitted(stage) == Cardinality({k \in 1..Len(log) : log[k] = stage})

\* the notification of every started task has been emitted once, just before it
EmittedOnceBeforeTask ==
    \A i \in 1..Len(events) :
       events[i].ev = "task" =>
          /\ TimesEmitted(events[i].stage) = 1
          /\ events[i - 1] = [ev |-> "notify", stage |-> events[i].stage,
                              delivered |-> TRUE]
          /\ \A j \in 1..(Len(events) \div 2) : log[j] = ClaimedSteps[j]

\* without a callback nothing is emitted
NothingEmitted ==
    /\ log = <<>>
    /\ \A i \in 1..Len(events) : events[i].ev = "notify" => ~events[i].delivered

\* the planning task is started after the three others have returned, from a
\* description that holds their outputs
PlanningEmbedsOutputs ==
    Len(events) >= 8 =>
        /\ \A i \in {2, 4, 6} : ~events[i].raised
        /\ events[8].description.profile = Out("persona", events[2].description)
        /\ events[8].description.weather = Out("weather", events[4].description)
        /\ events[8].description.local_insights = Out("insights", events[6].description)
        /\ events[8].description.profile = Val(profile)
        /\ events[8].description.weather = Val(weather)
        /\ events[8].description.local_insights = Val(local_insights)

EmptyInput ==
    \/ IsNone(Val(wf_args).user_data.location)
    \/ Val(Val(wf_args).user_data.location) = ""
    \/ Val(wf_args).plan_date = ""

\* an empty location or plan date ends the call with a ValueError before
\* anything is notified or run
EmptyInputRaisesFirst ==
    EmptyInput =>
        /\ wf_pc \in {"called", "raised"}
        /\ events = <<>>
        /\ log = <<>>
        /\ wf_pc = "raised" =>
              /\ wf_result.kind = "raised"
              /\ wf_result.exc \in {"ValueError: Location is required to generate the day plan.",
                                    "ValueError: Plan date is required."}

\* a task that raises is the last thing the call does, and the call raises
TaskFailureStops ==
    /\ \A i \in 1..Len(events) :
          (events[i].ev = "task" /\ events[i].raised) =>
              /\ i = Len(events)
              /\ wf_pc = "raised"
              /\ wf_result = [kind |-> "raised", exc |-> "TaskError"]
    /\ wf_result.kind = "returned" =>
          /\ Len(events) = 8
          /\ \A i \in {2, 4, 6, 8} : ~events[i].raised
          /\ wf_result.value.plan = Out("planning", events[8].description)

\* C16 as stated: the steps run strictly in the order persona, weather,
\* insights, planning; the notification of each step is emitted exactly once
\* and before the step's task starts; the planning task starts after the other
\* three have returned and its description holds their outputs; an empty
\* location or plan date raises ValueError before any notification or task; a
\* task that raises ends the call without a later step and without a result.
C16_FourStepsInOrder ==
    WorkflowCalled =>
        /\ StrictlySequential
        /\ EmittedOnceBeforeTask
        /\ PlanningEmbedsOutputs
        /\ EmptyInputRaisesFirst
        /\ TaskFailureStops

\* C16, amended: as stated for a call that is given a progress callback; a
\* call without one (the default) runs the same steps in the same order and
\* emits no notification.
C16_FourStepsInOrderGivenCallback ==
    WorkflowCalled =>
        /\ StrictlySequential
        /\ WithCallback => EmittedOnceBeforeTask
        /\ ~WithCallback => NothingEmitted
        /\ PlanningEmbedsOutputs
        /\ EmptyInputRaisesFirst
        /\ TaskFailureStops

\* a call with a callback and with commitments has returned its dict
C16_Witness ==
    /\ WithCallback
    /\ script_pc = "none"
    /\ wf_pc = "returned"
    /\ wf_result.kind = "returned"
    /\ log = ClaimedSteps
    /\ Len(events) = 8
    /\ Val(wf_args).commitments # None
    /\ events[8].description.weather = Val(weather)

(***************************************************************************)
(* The page.                                                               *)
(***************************************************************************)
SessionTriple == <<session.result, session.last_status_log, session.last_payload>>

\* the inputs that run_plan was called with, as last_payload keeps them
PayloadOfRun ==
    [user_data |-> Val(rp_args).user_data, plan_date |-> Val(rp_args).plan_date,
     commitments |-> Val(rp_args).commitments]

\* a step that changes one of the three entries is taken after the workflow
\* has returned and "done" was pushed, and sets all three from that run
WrittenTogetherAfterDone ==
    SessionTriple' # SessionTriple =>
        /\ rp_pc = "pushed"
        /\ wf_pc = "returned"
        /\ log # <<>> /\ log[Len(log)] = "done"
        /\ session'.result = Some(wf_result.value)
        /\ session'.last_status_log = Some(log)
        /\ session'.last_payload = Some(PayloadOfRun)

\* the step that handles the exception of a run leaves the three entries alone
FailedRunWritesNothing ==
    (rp_pc = "in_workflow" /\ wf_pc = "raised" /\ rp_pc' = "none") =>
        SessionTriple' = SessionTriple

\* a regeneration is run on the payload of the run that produced the result
RegenerationReusesPayload ==
    (rp_pc = "none" /\ rp_pc' = "in_workflow" /\ script_pc' = "feedback_form") =>
        /\ session.last_payload # None
        /\ [user_data |-> Val(rp_args').user_data, plan_date |-> Val(rp_args').plan_date,
            commitments |-> Val(rp_args').commitments] = Val(session.last_payload)
        /\ Val(session.result).date = Val(session.last_payload).plan_date
        /\ Val(session.result).commitments =
              OrText(Val(session.last_payload).commitments, <<>>)

\* the session entries of C17: they are written only together, only after the
\* workflow has returned and "done" was pushed, a failed run leaves them as
\* they were, and a regeneration reuses the payload of the run whose result
\* the session holds
C17_SessionEntriesFrame ==
    [][WrittenTogetherAfterDone /\ FailedRunWritesNothing /\ RegenerationReusesPayload]_vars

\* C17 as stated: the entries "result", "last_status_log" and "last_payload"
\* are written only together and only after plan_day_workflow has returned and
\* "done" was pushed; a run that fails leaves all three unchanged; so the
\* payload that a regeneration reuses, and the result on display whenever the
\* page is at rest, are those of the most recent successful run, which are
\* the ones the session holds.
C17_DisplayedResultIsLatest ==
    [][/\ WrittenTogetherAfterDone
       /\ FailedRunWritesNothing
       /\ RegenerationReusesPayload
       /\ script_pc' = "idle" => shown' = session'.result]_vars

\* a regeneration has succeeded: the session holds its result while the page
\* shows the result of the run before
C17_StaleDisplay ==
    /\ script_pc = "idle"
    /\ session.result # None
    /\ Val(session.result).adjustments # <<>>
    /\ shown # None
    /\ shown # session.result
    /\ Val(shown).adjustments = <<>>

====
